---- MODULE Spec2Model ----
(***************************************************************************)
(* Ocean diagnostics plot plugins: CplLog / CplLog_timeseries              *)
(* (cpllog_timeseries.py) and WesternBoundary (western_boundary.py).       *)
(*                                                                         *)
(* Python lists are 0-based; the sequences below are 1-based, so the       *)
(* Python element x[j] is written x[j + 1].  Strings are TLA+ strings and  *)
(* str.format is modelled by concatenation, so that file names and cell    *)
(* contents are compared literally.                                        *)
(***************************************************************************)
EXTENDS Naturals, Sequences, FiniteSets, TLC

VARIABLES
    _labels,          \* CplLog._labels
    _expectedPlots,   \* CplLog._expectedPlots
    _linkNames,       \* CplLog._linkNames
    _ncl,             \* CplLog._ncl
    _awkError,        \* CplLog._awkError
    _tailError,       \* CplLog._tailError
    _html,            \* CplLog._html: the variables handed to the template
    wb_expectedPlots, \* WesternBoundary._expectedPlots
    wb_html,          \* WesternBoundary._html: the variables handed to the template
    env,              \* the env dictionary passed to the methods
    files,            \* the readable files of the file system (full paths)
    imgFormat,        \* the imgFormat argument of _create_html
    pc,               \* position of the caller / of the running method
    raised,           \* the exception that propagated to the caller, or "none"
    checkedPaths,     \* the paths handed to cesmEnvLib.checkFile, in order
    cmdList,          \* check_prerequisites: the local cmdList
    cmdIdx,           \* check_prerequisites: 0-based index of the for loop
    nclIdx,           \* generate_plots: 0-based index of the for loop
    procLog           \* the subprocess.check_call invocations, in order

vars == <<_labels, _expectedPlots, _linkNames, _ncl, _awkError, _tailError,
          _html, wb_expectedPlots, wb_html, env, files, imgFormat, pc, raised,
          checkedPaths, cmdList, cmdIdx, nclIdx, procLog>>

(***************************************************************************)
(* Bounds of the model.                                                    *)
(***************************************************************************)
MaxLabels == 2
MaxPlots == 3
MaxLinks == 3
MaxWbPlots == 2

(***************************************************************************)
(* Small input domains.                                                    *)
(***************************************************************************)
RECURSIVE SeqsUpTo(_, _)
SeqsUpTo(S, n) ==
    IF n = 0 THEN {<<>>}
    ELSE LET shorter == SeqsUpTo(S, n - 1)
         IN shorter \cup {Append(s, x) : s \in {t \in shorter : Len(t) = n - 1}, x \in S}

LabelAt(n) == IF n = 1 THEN "Heat" ELSE IF n = 2 THEN "Freshwater" ELSE "Salt"
LabelLists == {[k \in 1..n |-> LabelAt(k)] : n \in 0..MaxLabels}
PlotNames == {"cplheatbudget", "cplfwbudget"}
LinkNames == {"timeseries", "table", "other"}
ImgFormats == {"png", "gif"}
WORKDIR == "/work"

(***************************************************************************)
(* String helpers: str.format patterns and the Python `in` of strings.     *)
(***************************************************************************)
\* '{0}.{1}'.format(a, b)
FormatDot(a, b) == a \o "." \o b

\* '{0}/{1}'.format(d, f)
FormatPath(d, f) == d \o "/" \o f

\* faulty variant: another error text
FormatError_no_dash(f) == f \o " Error"
\* '{0} - Error'.format(f)
FormatError(f) == f \o " - Error"

\* '{0}:'.format(label)
FormatLabel(label) == label \o ":"

\* word in s  (substring test)
StrIn(word, s) ==
    \E i \in 1..(Len(s) + 1) :
        /\ i + Len(word) - 1 <= Len(s)
        /\ SubSeq(s, i, i + Len(word) - 1) = word

\* cesmEnvLib.checkFile(path, 'read'): rc is True iff the path is a readable file
checkFile(fs, path) == path \in fs

(***************************************************************************)
(* CplLog.__init__ and CplLog_timeseries.__init__                          *)
(***************************************************************************)
CplLog_expectedPlots == <<"cplheatbudget", "cplfwbudget">>
CplLog_labels == <<"Heat", "Freshwater">>
CplLog_linkNames == <<"timeseries", "table">>
CplLog_name == "CPL Surface Heat and Freshwater Flux Budget"
CplLog_timeseries_ncl == <<"log_timeseries_heat.ncl", "log_timeseries_fw.ncl">>
NoHtml == [rendered |-> FALSE, title |-> "", plot_table |-> <<>>, num_rows |-> 0]
NoWbHtml == [rendered |-> FALSE, title |-> "", cols |-> 0, plot_table |-> <<>>, imgFormat |-> ""]

(***************************************************************************)
(* CplLog._create_html                                                     *)
(***************************************************************************)
\* faulty variants: one data column too many, one too few
num_cols_four == 3 + 1
num_cols_two == 3 - 1
num_cols == 3

label_tuple(label) == <<0, "label", FormatLabel(label)>>

\* the image file name of column j
img_file_of(plot, fmt) == FormatDot(plot, fmt)

\* faulty variant: the table file takes the image format as its extension
asc_file_with_image_format(plot, fmt) == FormatDot(plot, fmt)
\* the table file name of column j
asc_file_of(plot, fmt) == FormatDot(plot, "asc")

\* faulty variant: the test of rc is inverted
plot_tuple_swapped(j, linkName, file, rc) ==
    IF rc THEN <<j + 1, linkName, FormatError(file)>>
    ELSE <<j + 1, linkName, file>>
\* the tuple appended for column j once checkFile has answered rc
plot_tuple_of(j, linkName, file, rc) ==
    IF ~rc THEN <<j + 1, linkName, FormatError(file)>>
    ELSE <<j + 1, linkName, file>>

\* for j in range(num_cols - 1): acc is [row: plot_tuple_list, checked: paths]
RECURSIVE column_loop(_, _, _, _, _, _, _)
column_loop(links, plot_list, workdir, fmt, fs, j, acc) ==
    IF j >= num_cols - 1 THEN [raised |-> "none", row |-> acc.row, checked |-> acc.checked]
    ELSE IF j >= Len(links)
    THEN [raised |-> "IndexError", row |-> acc.row, checked |-> acc.checked]
    ELSE IF StrIn("timeseries", links[j + 1])
    THEN IF j >= Len(plot_list)
         THEN [raised |-> "IndexError", row |-> acc.row, checked |-> acc.checked]
         ELSE LET img_file == img_file_of(plot_list[j + 1], fmt)
                  path == FormatPath(workdir, img_file)
                  rc == checkFile(fs, path)
              IN column_loop(links, plot_list, workdir, fmt, fs, j + 1,
                     [row |-> Append(acc.row, plot_tuple_of(j, links[j + 1], img_file, rc)),
                      checked |-> Append(acc.checked, path)])
    ELSE IF StrIn("table", links[j + 1])
    THEN IF j >= Len(plot_list)
         THEN [raised |-> "IndexError", row |-> acc.row, checked |-> acc.checked]
         ELSE LET asc_file == asc_file_of(plot_list[j + 1], fmt)
                  path == FormatPath(workdir, asc_file)
                  rc == checkFile(fs, path)
              IN column_loop(links, plot_list, workdir, fmt, fs, j + 1,
                     [row |-> Append(acc.row, plot_tuple_of(j, links[j + 1], asc_file, rc)),
                      checked |-> Append(acc.checked, path)])
    ELSE column_loop(links, plot_list, workdir, fmt, fs, j + 1, acc)

\* for i in range(len(self._labels))
RECURSIVE row_loop(_, _, _, _, _, _, _, _, _)
row_loop(labels, links, plot_list, workdir, fmt, fs, i, plot_table, checked) ==
    IF i >= Len(labels)
    THEN [raised |-> "none", plot_table |-> plot_table, checked |-> checked]
    ELSE LET r == column_loop(links, plot_list, workdir, fmt, fs, 0,
                      [row |-> <<label_tuple(labels[i + 1])>>, checked |-> checked])
         IN IF r.raised # "none"
            THEN [raised |-> r.raised, plot_table |-> plot_table, checked |-> r.checked]
            ELSE row_loop(labels, links, plot_list, workdir, fmt, fs, i + 1,
                          Append(plot_table, r.row), r.checked)

\* CplLog._create_html(workdir, templatePath, imgFormat)
CplLog_create_html ==
    /\ pc = "constructed"
    /\ LET r == row_loop(_labels, _linkNames, _expectedPlots, WORKDIR, imgFormat,
                         files, 0, <<>>, <<>>)
       IN /\ raised' = r.raised
          /\ checkedPaths' = r.checked
          /\ _html' = IF r.raised = "none"
                      THEN [rendered |-> TRUE, title |-> CplLog_name,
                            plot_table |-> r.plot_table, num_rows |-> Len(_labels)]
                      ELSE _html
          /\ pc' = IF r.raised = "none" THEN "returned" ELSE "raised"
    /\ UNCHANGED <<_labels, _expectedPlots, _linkNames, _ncl, _awkError, _tailError,
                   wb_expectedPlots, wb_html, env, files, imgFormat,
                   cmdList, cmdIdx, nclIdx, procLog>>

(***************************************************************************)
(* The report builder over plot specs: the three lists, the image format   *)
(* and the set of existing files are inputs.                               *)
(***************************************************************************)
NoEnv == [TS_CPL |-> "7b", ntailht |-> "unset", ntailfw |-> "unset", TOOLPATH |-> "/tools"]

HtmlFiles == {FormatPath(WORKDIR, FormatDot(p, e)) : p \in PlotNames, e \in {"png", "asc"}}

InitHtml ==
    /\ _labels \in LabelLists
    /\ _expectedPlots \in SeqsUpTo(PlotNames, MaxPlots)
    /\ _linkNames \in SeqsUpTo(LinkNames, MaxLinks)
    /\ imgFormat \in ImgFormats
    /\ files \in SUBSET HtmlFiles
    /\ _ncl = <<>>
    /\ _awkError = FALSE
    /\ _tailError = FALSE
    /\ _html = NoHtml
    /\ wb_expectedPlots = <<>>
    /\ wb_html = NoWbHtml
    /\ env = NoEnv
    /\ pc = "constructed"
    /\ raised = "none"
    /\ checkedPaths = <<>>
    /\ cmdList = <<>>
    /\ cmdIdx = 0
    /\ nclIdx = 0
    /\ procLog = <<>>

NextHtml == CplLog_create_html

SpecHtml == InitHtml /\ [][NextHtml]_vars
(***************************************************************************)
(* CplLog.check_prerequisites                                              *)
(***************************************************************************)
YEAR0 == "1"
YEAR1 == "10"
NCLPATH == "/ncl"
LogFile == "/work/cpl.log.0001"
TsCplValues == {"6", "7", "7b", "8"}
ToolPaths == {"/tools", "tools"}

\* os.path.abspath for a normalised path, relative to the working directory
abspath(p, cwd) == IF SubSeq(p, 1, 1) = "/" THEN p ELSE FormatPath(cwd, p)

\* glob.glob('{0}/cpl.log.*'.format(env['WORKDIR']))
glob_cplLogs(fs) == IF LogFile \in fs THEN <<LogFile>> ELSE <<>>

\* faulty variant: coupler 6 is forgotten
is_cpl7_only(ts) == "7" = ts
\* '7' == env['TS_CPL'] or '6' == env['TS_CPL']
is_cpl6_or_7(ts) == "7" = ts \/ "6" = ts

cplVersion_of(ts) == IF is_cpl6_or_7(ts) THEN "cpl" \o ts ELSE "cpl7b"
ntailht_of(ts) == IF is_cpl6_or_7(ts) THEN "21" ELSE "22"
ntailfw_of(ts) == IF is_cpl6_or_7(ts) THEN "16" ELSE "16"

\* '{0}/process_{1}_logfiles_heat.awk'.format(env['TOOLPATH'], cplVersion), made absolute
heatPath_of(toolpath, version, cwd) ==
    abspath(toolpath \o "/process_" \o version \o "_logfiles_heat.awk", cwd)
fwPath_of(toolpath, version, cwd) ==
    abspath(toolpath \o "/process_" \o version \o "_logfiles_fw.awk", cwd)

\* '{0} y0={1} y1={2} {3}'.format(path, YEAR0, YEAR1, ' '.join(cplLogs)).split(' ')
awkCmd_of(path, cplLogs) ==
    <<path, "y0=" \o YEAR0, "y1=" \o YEAR1>> \o (IF cplLogs = <<>> THEN <<"">> ELSE cplLogs)

\* 'tail -{0} {1}.txt'.format(cmd[2], cmd[1]).split(' ')
tailCmd_of(cmd) == <<"tail", "-" \o cmd[3], cmd[2] \o ".txt">>

\* the body of check_prerequisites up to the for loop
check_prerequisites_enter ==
    /\ pc = "constructed"
    /\ LET ts == env.TS_CPL
           version == cplVersion_of(ts)
           ntailht == ntailht_of(ts)
           ntailfw == ntailfw_of(ts)
           cplLogs == glob_cplLogs(files)
           heatCmd == awkCmd_of(heatPath_of(env.TOOLPATH, version, WORKDIR), cplLogs)
           freshWaterCmd == awkCmd_of(fwPath_of(env.TOOLPATH, version, WORKDIR), cplLogs)
       IN /\ env' = [env EXCEPT !.ntailht = ntailht, !.ntailfw = ntailfw]
          /\ cmdList' = << <<heatCmd, "cplheatbudget", ntailht>>,
                           <<freshWaterCmd, "cplfwbudget", ntailfw>> >>
    /\ cmdIdx' = 0
    /\ pc' = "prereq_loop"
    /\ UNCHANGED <<_labels, _expectedPlots, _linkNames, _ncl, _awkError, _tailError,
                   _html, wb_expectedPlots, wb_html, files, imgFormat, raised,
                   checkedPaths, nclIdx, procLog>>

\* faulty variant: the flag is not set
awkError_kept(old) == old
\* the handler of the awk command's CalledProcessError
awkError_after_failure(old) == TRUE

\* one iteration of the for loop up to the tail step: open the .txt file, run
\* the awk command, check the .txt file.  The awk command is an external
\* process: it cannot be started (OSError), exits non-zero, or exits zero; the
\* .txt file is then readable or not.
awk_step ==
    /\ pc = "prereq_loop"
    /\ cmdIdx < Len(cmdList)
    /\ LET cmd == cmdList[cmdIdx + 1]
           outFile == FormatPath(WORKDIR, FormatDot(cmd[2], "txt"))
       IN \E started \in BOOLEAN, rc \in {0, 1}, readable \in BOOLEAN :
             /\ files' = IF readable THEN files \cup {outFile} ELSE files \ {outFile}
             /\ IF ~started
                THEN /\ raised' = "OSError"
                     /\ pc' = "raised"
                     /\ UNCHANGED <<_awkError, cmdIdx, procLog>>
                ELSE /\ procLog' = Append(procLog,
                            [kind |-> "awk", file |-> cmd[2], cmd |-> cmd[1], rc |-> rc])
                     /\ raised' = raised
                     /\ IF rc # 0
                        THEN /\ _awkError' = awkError_after_failure(_awkError)
                             /\ cmdIdx' = cmdIdx + 1
                             /\ pc' = pc
                        ELSE /\ _awkError' = _awkError
                             /\ IF checkFile(files', outFile)
                                THEN pc' = "prereq_tail" /\ cmdIdx' = cmdIdx
                                ELSE pc' = pc /\ cmdIdx' = cmdIdx + 1
    /\ UNCHANGED <<_labels, _expectedPlots, _linkNames, _ncl, _tailError, _html,
                   wb_expectedPlots, wb_html, env, imgFormat, checkedPaths,
                   cmdList, nclIdx>>

\* the tail step of the iteration: open the .asc file and run tail into it; a
\* non-zero exit of tail is reported as a warning only
tail_step ==
    /\ pc = "prereq_tail"
    /\ LET cmd == cmdList[cmdIdx + 1]
           ascFile == FormatPath(WORKDIR, FormatDot(cmd[2], "asc"))
       IN \E rc \in {0, 1} :
             /\ files' = files \cup {ascFile}
             /\ procLog' = Append(procLog,
                    [kind |-> "tail", file |-> cmd[2], cmd |-> tailCmd_of(cmd), rc |-> rc])
    /\ cmdIdx' = cmdIdx + 1
    /\ pc' = "prereq_loop"
    /\ UNCHANGED <<_labels, _expectedPlots, _linkNames, _ncl, _awkError, _tailError,
                   _html, wb_expectedPlots, wb_html, env, imgFormat, raised,
                   checkedPaths, cmdList, nclIdx>>

\* the for loop is exhausted: check_prerequisites returns
check_prerequisites_return ==
    /\ pc = "prereq_loop"
    /\ cmdIdx >= Len(cmdList)
    /\ pc' = "prereq_done"
    /\ UNCHANGED <<_labels, _expectedPlots, _linkNames, _ncl, _awkError, _tailError,
                   _html, wb_expectedPlots, wb_html, env, files, imgFormat, raised,
                   checkedPaths, cmdList, cmdIdx, nclIdx, procLog>>

(***************************************************************************)
(* CplLog.generate_plots                                                   *)
(***************************************************************************)
\* 'cpl{0}_{1}'.format(env['TS_CPL'], ncl)
nclPlotFile_of(ts, ncl) == "cpl" \o ts \o "_" \o ncl

\* the handler of the ncl command's CalledProcessError formats its warning
\* with the name nclfile, which is bound nowhere: the handler itself raises
ncl_failure_handler == "NameError"

\* one iteration of the for loop: copy the script, check it, run ncl on it
ncl_step ==
    /\ pc = "prereq_done"
    /\ nclIdx < Len(_ncl)
    /\ LET nclPlotFile == nclPlotFile_of(env.TS_CPL, _ncl[nclIdx + 1])
           source == FormatPath(NCLPATH, nclPlotFile)
           nclFile == FormatPath(WORKDIR, nclPlotFile)
       IN IF ~checkFile(files, source)
          THEN \* shutil.copy2 raises for a missing source
               /\ raised' = "IOError"
               /\ pc' = "raised"
               /\ UNCHANGED <<files, nclIdx, procLog>>
          ELSE /\ files' = files \cup {nclFile}
               /\ IF checkFile(files', nclFile)
                  THEN \E rc \in {0, 1} :
                         /\ procLog' = Append(procLog,
                                [kind |-> "ncl", file |-> _ncl[nclIdx + 1],
                                 cmd |-> <<"ncl", nclFile>>, rc |-> rc])
                         /\ IF rc # 0
                            THEN /\ raised' = ncl_failure_handler
                                 /\ pc' = "raised"
                                 /\ nclIdx' = nclIdx
                            ELSE /\ raised' = raised
                                 /\ pc' = pc
                                 /\ nclIdx' = nclIdx + 1
                  ELSE /\ nclIdx' = nclIdx + 1
                       /\ UNCHANGED <<raised, pc, procLog>>
    /\ UNCHANGED <<_labels, _expectedPlots, _linkNames, _ncl, _awkError, _tailError,
                   _html, wb_expectedPlots, wb_html, env, imgFormat, checkedPaths,
                   cmdList, cmdIdx>>

\* the for loop is exhausted: generate_plots returns
generate_plots_return ==
    /\ pc = "prereq_done"
    /\ nclIdx >= Len(_ncl)
    /\ pc' = "plots_done"
    /\ UNCHANGED <<_labels, _expectedPlots, _linkNames, _ncl, _awkError, _tailError,
                   _html, wb_expectedPlots, wb_html, env, files, imgFormat, raised,
                   checkedPaths, cmdList, cmdIdx, nclIdx, procLog>>

(***************************************************************************)
(* A CplLog_timeseries object: construction, check_prerequisites, then     *)
(* generate_plots.                                                         *)
(***************************************************************************)
Init ==
    /\ _labels = CplLog_labels
    /\ _expectedPlots = CplLog_expectedPlots
    /\ _linkNames = CplLog_linkNames
    /\ _ncl = CplLog_timeseries_ncl
    /\ _awkError = FALSE
    /\ _tailError = FALSE
    /\ _html = NoHtml
    /\ wb_expectedPlots = <<>>
    /\ wb_html = NoWbHtml
    /\ \E ts \in TsCplValues, tp \in ToolPaths :
          /\ env = [TS_CPL |-> ts, ntailht |-> "unset", ntailfw |-> "unset", TOOLPATH |-> tp]
          /\ \E logs \in SUBSET {LogFile} :
             \E srcs \in SUBSET {FormatPath(NCLPATH, nclPlotFile_of(ts, CplLog_timeseries_ncl[k])) :
                                    k \in 1..Len(CplLog_timeseries_ncl)} :
                 files = logs \cup srcs
    /\ imgFormat = "png"
    /\ pc = "constructed"
    /\ raised = "none"
    /\ checkedPaths = <<>>
    /\ cmdList = <<>>
    /\ cmdIdx = 0
    /\ nclIdx = 0
    /\ procLog = <<>>

Next ==
    \/ check_prerequisites_enter
    \/ awk_step
    \/ tail_step
    \/ check_prerequisites_return
    \/ ncl_step
    \/ generate_plots_return

Spec == Init /\ [][Next]_vars

(***************************************************************************)
(* WesternBoundary.__init__ and WesternBoundary._create_html               *)
(***************************************************************************)
WesternBoundary_expectedPlots == <<"DWBC">>
WesternBoundary_name == "Western Boundary Currents"
wb_num_cols == 1

\* faulty variant: the entry is the file name, extension included
wb_entry_with_extension(plot_file, img_file, rc) ==
    IF ~rc THEN FormatError(img_file) ELSE img_file
\* the entry appended for one expected plot once checkFile has answered rc
wb_entry(plot_file, img_file, rc) ==
    IF ~rc THEN FormatError(plot_file) ELSE plot_file

\* for plot_file in self._expectedPlots
RECURSIVE wb_plot_loop(_, _, _, _, _, _)
wb_plot_loop(plots, workdir, fmt, fs, k, acc) ==
    IF k >= Len(plots) THEN acc
    ELSE LET plot_file == plots[k + 1]
             img_file == FormatDot(plot_file, fmt)
             path == FormatPath(workdir, img_file)
             rc == checkFile(fs, path)
         IN wb_plot_loop(plots, workdir, fmt, fs, k + 1,
                [plot_list |-> Append(acc.plot_list, wb_entry(plot_file, img_file, rc)),
                 checked |-> Append(acc.checked, path)])

\* WesternBoundary._create_html(workdir, templatePath, imgFormat)
WesternBoundary_create_html ==
    /\ pc = "constructed"
    /\ LET r == wb_plot_loop(wb_expectedPlots, WORKDIR, imgFormat, files, 0,
                             [plot_list |-> <<>>, checked |-> <<>>])
       IN /\ wb_html' = [rendered |-> TRUE, title |-> WesternBoundary_name,
                         cols |-> wb_num_cols, plot_table |-> <<r.plot_list>>,
                         imgFormat |-> imgFormat]
          /\ checkedPaths' = r.checked
    /\ pc' = "returned"
    /\ UNCHANGED <<_labels, _expectedPlots, _linkNames, _ncl, _awkError, _tailError,
                   _html, wb_expectedPlots, env, files, imgFormat, raised,
                   cmdList, cmdIdx, nclIdx, procLog>>

WbPlotNames == {"DWBC", "WBC"}
WbFiles == {FormatPath(WORKDIR, FormatDot(p, e)) : p \in WbPlotNames, e \in ImgFormats}

InitWB ==
    /\ wb_expectedPlots \in SeqsUpTo(WbPlotNames, MaxWbPlots)
    /\ imgFormat \in ImgFormats
    /\ files \in SUBSET WbFiles
    /\ wb_html = NoWbHtml
    /\ _labels = <<>>
    /\ _expectedPlots = <<>>
    /\ _linkNames = <<>>
    /\ _ncl = <<>>
    /\ _awkError = FALSE
    /\ _tailError = FALSE
    /\ _html = NoHtml
    /\ env = NoEnv
    /\ pc = "constructed"
    /\ raised = "none"
    /\ checkedPaths = <<>>
    /\ cmdList = <<>>
    /\ cmdIdx = 0
    /\ nclIdx = 0
    /\ procLog = <<>>

NextWB == WesternBoundary_create_html

SpecWB == InitWB /\ [][NextWB]_vars

(***************************************************************************)
(* Vocabulary of the claims about the report builder.                      *)
(***************************************************************************)
Table == _html.plot_table
Built == pc = "returned"
Finished == pc \in {"returned", "raised"}
IsImageKind(k) == k = "timeseries"
IsTableKind(k) == k = "table"
KindsKnown == \A k \in 1..Len(_linkNames) : IsImageKind(_linkNames[k]) \/ IsTableKind(_linkNames[k])
\* a well-formed plot spec: one artifact per column, every column an image or a table
WellFormed == KindsKnown /\ Len(_expectedPlots) = Len(_linkNames)
Extension(kind) == IF IsImageKind(kind) THEN imgFormat ELSE "asc"
Candidate(j) == _expectedPlots[j] \o "." \o Extension(_linkNames[j])
Exists(name) == (WORKDIR \o "/" \o name) \in files
HeatPng == "cplheatbudget.png"
FwAsc == "cplfwbudget.asc"

\* C1 as stated: for every well-formed plot spec (here: with at least one column
\* kind) the table has len(labels) rows and every row has len(columnKinds) + 1
\* cells.
C1_AnyNumberOfColumns ==
    (Finished /\ WellFormed /\ Len(_linkNames) >= 1) =>
        /\ Built
        /\ Len(Table) = Len(_labels)
        /\ \A i \in 1..Len(Table) : Len(Table[i]) = Len(_linkNames) + 1

\* C1 amended: for every well-formed plot spec with exactly two column kinds the
\* table has len(labels) rows, and every row has exactly 3 cells: the label cell
\* followed by one cell per column kind, in column order.
C1_TwoColumns ==
    (Finished /\ WellFormed /\ Len(_linkNames) = 2) =>
        /\ Built
        /\ _html.rendered
        /\ _html.num_rows = Len(_labels)
        /\ Len(Table) = Len(_labels)
        /\ \A i \in 1..Len(Table) :
              /\ Len(Table[i]) = Len(_linkNames) + 1
              /\ Table[i][1] = <<0, "label", _labels[i] \o ":">>
              /\ \A j \in 1..Len(_linkNames) :
                    /\ Table[i][j + 1][1] = j
                    /\ Table[i][j + 1][2] = _linkNames[j]

C1_Witness ==
    Built /\ WellFormed /\ Len(_linkNames) = 2 /\ Len(_labels) = 2 /\ Len(Table) = 2

\* C2: every non-label cell holds the candidate file name when the file exists
\* and "<file name> - Error" when it does not; nothing else.
C2_CellContent ==
    Built =>
        \A i \in 1..Len(Table) : \A c \in 2..Len(Table[i]) :
            LET cell == Table[i][c]
                name == Candidate(cell[1])
            IN /\ cell[2] = _linkNames[cell[1]]
               /\ cell[3] = IF Exists(name) THEN name ELSE name \o " - Error"

C2_Witness ==
    /\ Built
    /\ \E i \in 1..Len(Table) : \E c, d \in 2..Len(Table[i]) :
          /\ Exists(Candidate(Table[i][c][1]))
          /\ ~Exists(Candidate(Table[i][d][1]))

\* the scenario of C3
C3_Scenario ==
    /\ Built
    /\ _labels = <<"Heat", "Freshwater">>
    /\ _expectedPlots = <<"cplheatbudget", "cplfwbudget">>
    /\ _linkNames = <<"timeseries", "table">>
    /\ imgFormat = "png"
    /\ Exists(HeatPng)
    /\ ~Exists(FwAsc)

\* C3 as stated: 2 rows, row 0 cell1 = "cplheatbudget.png" and
\* row 1 cell1 = "cplfwbudget.asc - Error".
C3_Row1FirstCell ==
    C3_Scenario =>
        /\ Len(Table) = 2
        /\ Table[1][2][3] = "cplheatbudget.png"
        /\ Table[2][2][3] = "cplfwbudget.asc - Error"

\* C3 amended: 2 rows, row 0 cell1 = "cplheatbudget.png", and it is the second
\* data cell (cell2) of row 1 that is "cplfwbudget.asc - Error"; the first data
\* cell of row 1 is again "cplheatbudget.png".
C3_Row1SecondCell ==
    C3_Scenario =>
        /\ Len(Table) = 2
        /\ Table[1][2][3] = "cplheatbudget.png"
        /\ Table[2][2][3] = "cplheatbudget.png"
        /\ Table[2][3][3] = "cplfwbudget.asc - Error"

C3_Witness == C3_Scenario /\ Len(Table[2]) = 3

\* the artifacts and the column kinds do not pair up
Mismatch == Len(_expectedPlots) # Len(_linkNames)

\* C4 as stated: a length mismatch aborts the build with an error and no table
\* is rendered (here: for image and table kinds and at least one label).
C4_MismatchFatal ==
    (Finished /\ Mismatch /\ KindsKnown /\ Len(_labels) >= 1) =>
        (pc = "raised" /\ raised # "none" /\ ~_html.rendered)

\* C4 amended: with image and table kinds only, a length mismatch is fatal exactly
\* when there is at least one label and fewer than two artifacts or fewer than
\* two column kinds: the build then aborts with an IndexError and nothing is
\* rendered.  Any other mismatch raises no error and a table of len(labels)
\* rows with exactly two data columns is rendered.
C4_MismatchOutcome ==
    (Finished /\ Mismatch /\ KindsKnown) =>
        LET short == Len(_labels) >= 1 /\ (Len(_expectedPlots) < 2 \/ Len(_linkNames) < 2)
        IN /\ short => (pc = "raised" /\ raised = "IndexError" /\ ~_html.rendered)
           /\ ~short =>
                 /\ Built
                 /\ raised = "none"
                 /\ _html.rendered
                 /\ Len(Table) = Len(_labels)
                 /\ \A i \in 1..Len(Table) : Len(Table[i]) = 3

C4_Witness ==
    /\ Built
    /\ Mismatch
    /\ KindsKnown
    /\ Len(_linkNames) = 3
    /\ Len(_expectedPlots) = 2
    /\ Len(Table) = 2

\* C5: missing files are never fatal.  Whatever subset of the candidate files is
\* absent, the build of a two-column spec raises nothing, checks one file per
\* label and column, and returns the full table in which every absent file is an
\* error-annotated cell.
C5_MissingNotFatal ==
    (Finished /\ WellFormed /\ Len(_linkNames) = 2) =>
        /\ Built
        /\ raised = "none"
        /\ Len(Table) = Len(_labels)
        /\ Len(checkedPaths) = 2 * Len(_labels)
        /\ \A i \in 1..Len(_labels) : \A j \in 1..2 :
              LET path == checkedPaths[2 * (i - 1) + j]
                  name == Candidate(j)
              IN /\ path = WORKDIR \o "/" \o name
                 /\ path \notin files => Table[i][j + 1][3] = name \o " - Error"

C5_Witness ==
    /\ Built
    /\ WellFormed
    /\ Len(_linkNames) = 2
    /\ Len(_labels) = 2
    /\ files = {}
    /\ Len(checkedPaths) = 4

\* the spec with the kind of column j switched between image and table
FlipKind(links, j) ==
    [links EXCEPT ![j] = IF IsImageKind(links[j]) THEN "table" ELSE "timeseries"]
OtherExtension(kind) == IF IsImageKind(kind) THEN "asc" ELSE imgFormat

\* C6: the file checked and reported for column j is "<artifact[j]>.<imageFormat>"
\* for an image column and "<artifact[j]>.asc" for a table column, and switching
\* the kind of one column changes only that column's cells, whose file name keeps
\* the base name and takes the other extension.
C6_ExtensionByKind ==
    (Built /\ KindsKnown) =>
        /\ \A i \in 1..Len(Table) : \A c \in 2..Len(Table[i]) :
              LET j == Table[i][c][1]
                  name == _expectedPlots[j] \o "." \o
                              (IF _linkNames[j] = "timeseries" THEN imgFormat ELSE "asc")
              IN /\ checkedPaths[(i - 1) * (Len(Table[i]) - 1) + (c - 1)] = WORKDIR \o "/" \o name
                 /\ Table[i][c][3] \in {name, name \o " - Error"}
        /\ \A j \in 1..Len(_linkNames) :
              LET other == row_loop(_labels, FlipKind(_linkNames, j), _expectedPlots,
                                    WORKDIR, imgFormat, files, 0, <<>>, <<>>)
                  name == _expectedPlots[j] \o "." \o OtherExtension(_linkNames[j])
              IN /\ other.raised = "none"
                 /\ Len(other.plot_table) = Len(Table)
                 /\ \A i \in 1..Len(Table) :
                       /\ Len(other.plot_table[i]) = Len(Table[i])
                       /\ \A c \in 1..Len(Table[i]) :
                             IF c = j + 1
                             THEN /\ other.plot_table[i][c][1] = j
                                  /\ other.plot_table[i][c][3] \in {name, name \o " - Error"}
                             ELSE other.plot_table[i][c] = Table[i][c]

C6_Witness ==
    /\ Built
    /\ KindsKnown
    /\ imgFormat = "gif"
    /\ Len(Table) >= 1
    /\ \E c, d \in 2..3 : Table[1][c][2] = "timeseries" /\ Table[1][d][2] = "table"
(***************************************************************************)
(* Vocabulary of the claims about check_prerequisites and generate_plots.  *)
(***************************************************************************)
EndsWith(str, suffix) ==
    /\ Len(suffix) <= Len(str)
    /\ SubSeq(str, Len(str) - Len(suffix) + 1, Len(str)) = suffix
Entries(kind) == {k \in 1..Len(procLog) : procLog[k].kind = kind}
Entered == pc # "constructed"
PrereqReturned == pc \in {"prereq_done", "plots_done"}
OldCoupler == env.TS_CPL \in {"6", "7"}
ExpectedVersion == IF OldCoupler THEN "cpl" \o env.TS_CPL ELSE "cpl7b"
TxtOf(name) == WORKDIR \o "/" \o name \o ".txt"
AscOf(name) == WORKDIR \o "/" \o name \o ".asc"

\* C7: the awk scripts and the tail windows follow from TS_CPL alone: '6' and '7'
\* give process_cpl<TS_CPL>_logfiles_{heat,fw}.awk with ntailht '21', ntailfw '16';
\* any other value gives process_cpl7b_logfiles_{heat,fw}.awk with '22' and '16';
\* the heat tail uses ntailht and the freshwater tail uses ntailfw.
C7_ScriptsAndWindows ==
    Entered =>
        /\ env.ntailht = (IF OldCoupler THEN "21" ELSE "22")
        /\ env.ntailfw = "16"
        /\ Len(cmdList) = 2
        /\ cmdList[1][2] = "cplheatbudget"
        /\ cmdList[2][2] = "cplfwbudget"
        /\ EndsWith(cmdList[1][1][1], "/process_" \o ExpectedVersion \o "_logfiles_heat.awk")
        /\ EndsWith(cmdList[2][1][1], "/process_" \o ExpectedVersion \o "_logfiles_fw.awk")
        /\ \A k \in Entries("awk") :
              procLog[k].cmd = (IF procLog[k].file = "cplheatbudget"
                                THEN cmdList[1][1] ELSE cmdList[2][1])
        /\ \A k \in Entries("tail") :
              procLog[k].cmd =
                  <<"tail",
                    "-" \o (IF procLog[k].file = "cplheatbudget" THEN env.ntailht ELSE env.ntailfw),
                    procLog[k].file \o ".txt">>

C7_Witness ==
    /\ PrereqReturned
    /\ env.TS_CPL = "6"
    /\ \E k, l \in Entries("tail") :
          procLog[k].file = "cplheatbudget" /\ procLog[l].file = "cplfwbudget"

\* C8: heat is processed before freshwater; a budget's tail runs only right after
\* that budget's awk command exited 0 and its .txt file was found readable; a
\* non-zero awk exit sets _awkError, skips that budget's tail (no .asc file is
\* created for it) and leaves the next budget's awk command to run; _awkError is
\* True exactly when an awk command exited non-zero.
C8_AwkThenTail ==
    /\ \A k \in Entries("tail") :
          /\ k > 1
          /\ procLog[k - 1].kind = "awk"
          /\ procLog[k - 1].file = procLog[k].file
          /\ procLog[k - 1].rc = 0
          /\ TxtOf(procLog[k].file) \in files
    /\ \A k, l \in Entries("awk") \cup Entries("tail") :
          (procLog[k].file = "cplfwbudget" /\ procLog[l].file = "cplheatbudget") => l < k
    /\ \A k \in Entries("awk") :
          procLog[k].rc # 0 =>
              /\ \A l \in Entries("tail") : procLog[l].file # procLog[k].file
              /\ AscOf(procLog[k].file) \notin files
    /\ _awkError <=> (\E k \in Entries("awk") : procLog[k].rc # 0)
    /\ PrereqReturned =>
          /\ Cardinality(Entries("awk")) = 2
          /\ \E k, l \in Entries("awk") :
                k < l /\ procLog[k].file = "cplheatbudget" /\ procLog[l].file = "cplfwbudget"

C8_Witness ==
    /\ pc = "prereq_done"
    /\ _awkError
    /\ Len(procLog) = 3
    /\ procLog[1].kind = "awk" /\ procLog[1].file = "cplheatbudget" /\ procLog[1].rc = 1
    /\ procLog[2].kind = "awk" /\ procLog[2].file = "cplfwbudget" /\ procLog[2].rc = 0
    /\ procLog[3].kind = "tail" /\ procLog[3].file = "cplfwbudget"
    /\ AscOf("cplfwbudget") \in files

\* C9: a non-zero exit of an ncl run is only a warning: no exception reaches the
\* caller, and when generate_plots has returned every script of _ncl has been
\* copied and run, in list order.
C9_NclFailureNotFatal ==
    (\E k \in Entries("ncl") : procLog[k].rc # 0) =>
        /\ raised = "none"
        /\ pc \in {"prereq_done", "plots_done"}
        /\ pc = "plots_done" =>
              /\ Cardinality(Entries("ncl")) = Len(_ncl)
              /\ \A k, l \in Entries("ncl") :
                    (procLog[k].file = _ncl[1] /\ procLog[l].file = _ncl[2]) => k < l

(***************************************************************************)
(* The claim about WesternBoundary._create_html.                           *)
(***************************************************************************)
\* C10: the table has exactly one row, whose entries follow _expectedPlots one
\* to one and in order: the base name p when workdir/<p>.<imgFormat> is
\* readable, "<p> - Error" when it is not; a missing file never aborts the build.
C10_OneRow ==
    /\ raised = "none"
    /\ Built =>
          /\ wb_html.rendered
          /\ wb_html.cols = 1
          /\ Len(wb_html.plot_table) = 1
          /\ Len(wb_html.plot_table[1]) = Len(wb_expectedPlots)
          /\ \A k \in 1..Len(wb_expectedPlots) :
                LET p == wb_expectedPlots[k]
                IN wb_html.plot_table[1][k] =
                       IF (WORKDIR \o "/" \o p \o "." \o imgFormat) \in files
                       THEN p ELSE p \o " - Error"

C10_Witness ==
    /\ Built
    /\ Len(wb_expectedPlots) = 2
    /\ wb_html.plot_table[1][1] = "DWBC"
    /\ wb_html.plot_table[1][2] = "WBC - Error"
====
